---- MODULE Spec2Model ----
(***************************************************************************)
(* Model of file_converter.py: a Streamlit script that, on every re-run,   *)
(* walks the uploaded files and for each one parses it into a DataFrame,   *)
(* optionally drops duplicate rows, optionally fills missing numeric cells *)
(* with the column mean, restricts it to the selected columns and offers   *)
(* it for download.  Each user interaction with a widget starts a re-run.  *)
(*                                                                         *)
(* Numbers are exact rationals (the code uses float64; rounding is not     *)
(* modelled).  The chart, the file size line and the CSS are display only  *)
(* and are modelled only by the widget keys they register.                 *)
(***************************************************************************)
EXTENDS Integers, Sequences, FiniteSets, TLC

\* ------------------------------------------------------------------ bounds
\* Files uploaded together (specification Spec).
MaxFiles == 2
\* User interactions after the upload (specification Spec).
MaxClicks == 1
\* User interactions on a single uploaded file (specification SpecSession).
MaxSessionClicks == 3
\* Data rows of the uploaded grid (specification SpecClean).
MaxRows == 3

\* ------------------------------------------------------------------- cells
\* A cell of a DataFrame: a missing value (NaN), a number n/d in lowest
\* terms, or a string.  One record shape so that rows compare with =.
NaN == [k |-> "nan", n |-> 0, d |-> 1, s |-> ""]
Str(s) == [k |-> "str", n |-> 0, d |-> 1, s |-> s]

RECURSIVE Gcd(_, _)
Gcd(a, b) == IF b = 0 THEN a ELSE Gcd(b, a % b)

Abs(x) == IF x < 0 THEN -x ELSE x

Num(n, d) ==
    LET g == Gcd(Abs(n), d)
    IN  [k |-> "num", n |-> n \div g, d |-> d \div g, s |-> ""]

IsNull(c) == c.k = "nan"

\* ------------------------------------------------------------------- names
\* A file name is a sequence of tokens; "." is the dot, every other token is
\* a run of characters without a dot.
\* str.split(sep): the pieces between the separators, empty pieces kept.
RECURSIVE SplitAcc(_, _, _, _)
SplitAcc(s, sep, cur, acc) ==
    IF s = <<>> THEN Append(acc, cur)
    ELSE IF Head(s) = sep
         THEN SplitAcc(Tail(s), sep, <<>>, Append(acc, cur))
         ELSE SplitAcc(Tail(s), sep, Append(cur, Head(s)), acc)

split(s, sep) == SplitAcc(s, sep, <<>>, <<>>)

\* Variant: the piece after the first dot, split(".")[1].
ExtFirstAfterDot(name) ==
    LET p == split(name, ".") IN IF Len(p) >= 2 THEN p[2] ELSE p[1]

\* file.name.split(".")[-1]
ext(name) == LET p == split(name, ".") IN p[Len(p)]

\* file.name.split('.')[0]
basename(name) == split(name, ".")[1]

\* --------------------------------------------------------------- DataFrame
\* A DataFrame: its column labels in order, each column's dtype as fixed by
\* the parser, and its rows (functions from column label to cell).
Nil == [cols |-> <<>>, dtype |-> <<>>, rows |-> <<>>, nil |-> TRUE]

Range(f) == {f[i] : i \in DOMAIN f}

\* The uploaded bytes: a format and the grid they encode (header + rows).
\* pandas infers a column's dtype from its cells: a column with a string
\* cell is object; a column of numbers and blanks is float64/int64; a
\* frame without rows has object columns.
InferDtype(grid, c) ==
    IF grid.rows # <<>> /\ \A i \in 1..Len(grid.rows) : grid.rows[i][c].k # "str"
    THEN "number" ELSE "object"

DataFrame(grid) ==
    [cols  |-> grid.cols,
     dtype |-> [c \in Range(grid.cols) |-> InferDtype(grid, c)],
     rows  |-> grid.rows,
     nil   |-> FALSE]

\* pd.read_csv / pd.read_excel: the frame, or an exception when the bytes are
\* not in the parser's format.
ParserFor(name) == IF ext(name) = <<"csv">> THEN "csv" ELSE "excel"

CanParse(file) == ParserFor(file.name) = file.fmt

\* df.select_dtypes(include="number").columns
RECURSIVE KeepIn(_, _)
KeepIn(s, keep) ==
    IF s = <<>> THEN <<>>
    ELSE IF Head(s) \in keep THEN <<Head(s)>> \o KeepIn(Tail(s), keep)
         ELSE KeepIn(Tail(s), keep)

numeric_cols(df) == KeepIn(df.cols, {c \in Range(df.cols) : df.dtype[c] = "number"})

\* df.drop_duplicates(): a row is dropped when an earlier kept row equals it
\* in every column (NaN equal to NaN); first occurrences stay, in order.
\* DropRows walks the rows as pandas' duplicated() does, keeping the seen ones.
RECURSIVE DropRows(_, _)
DropRows(rows, kept) ==
    IF rows = <<>> THEN kept
    ELSE IF \E j \in 1..Len(kept) : kept[j] = Head(rows)
         THEN DropRows(Tail(rows), kept)
         ELSE DropRows(Tail(rows), Append(kept, Head(rows)))

\* Variant: keep="last", the last occurrence of each row stays.
DropKeepLast(df) ==
    LET Rev(s) == [i \in 1..Len(s) |-> s[Len(s) + 1 - i]]
    IN  [df EXCEPT !.rows = Rev(DropRows(Rev(df.rows), <<>>))]

drop_duplicates(df) == [df EXCEPT !.rows = DropRows(df.rows, <<>>)]

\* Series.mean(): the sum of the present cells over their count; NaN when
\* no cell is present.
RECURSIVE SumNum(_, _, _)
SumNum(rows, c, acc) ==
    IF rows = <<>> THEN acc
    ELSE LET x == Head(rows)[c]
         IN  IF IsNull(x) THEN SumNum(Tail(rows), c, acc)
             ELSE SumNum(Tail(rows), c,
                         [n |-> acc.n * x.d + x.n * acc.d, d |-> acc.d * x.d])

Count(rows, c) == Cardinality({i \in 1..Len(rows) : ~IsNull(rows[i][c])})

\* Variant: the sum divided by the number of rows, missing ones included.
MeanOverAllRows(rows, c) ==
    IF Count(rows, c) = 0 THEN NaN
    ELSE LET t == SumNum(rows, c, [n |-> 0, d |-> 1])
         IN  Num(t.n, t.d * Len(rows))

mean(rows, c) ==
    IF Count(rows, c) = 0 THEN NaN
    ELSE LET t == SumNum(rows, c, [n |-> 0, d |-> 1])
         IN  Num(t.n, t.d * Count(rows, c))

\* Variant: df.fillna(0), every missing cell of every column becomes 0.
fillna_zero(df) ==
    [df EXCEPT !.rows =
        [i \in 1..Len(df.rows) |->
            [c \in Range(df.cols) |->
                IF IsNull(df.rows[i][c]) THEN Num(0, 1) ELSE df.rows[i][c]]]]

\* df.fillna(df.select_dtypes(include=["number"]).mean(), inplace=True):
\* a missing cell of a numeric column becomes that column's mean, taken over
\* the frame as it is when the call runs.
fillna_mean(df) ==
    [df EXCEPT !.rows =
        [i \in 1..Len(df.rows) |->
            [c \in Range(df.cols) |->
                IF df.dtype[c] = "number" /\ IsNull(df.rows[i][c])
                THEN mean(df.rows, c)
                ELSE df.rows[i][c]]]]

\* Variant: the listed columns in the frame's own order,
\* df[[c for c in df.columns if c in selected_columns]].
SelectInFrameOrder(df, selected) ==
    LET keep == KeepIn(df.cols, Range(selected))
    IN  [cols  |-> keep,
         dtype |-> [c \in Range(keep) |-> df.dtype[c]],
         rows  |-> [i \in 1..Len(df.rows) |-> [c \in Range(keep) |-> df.rows[i][c]]],
         nil   |-> FALSE]

\* df[selected_columns]: the listed columns, in the order listed.
getitem(df, selected) ==
    [cols  |-> selected,
     dtype |-> [c \in Range(selected) |-> df.dtype[c]],
     rows  |-> [i \in 1..Len(df.rows) |-> [c \in Range(selected) |-> df.rows[i][c]]],
     nil   |-> FALSE]

\* strftime("%Y%m%d_%H%M%S"): zero-padded decimal fields.
Digit(n) == <<"0", "1", "2", "3", "4", "5", "6", "7", "8", "9">>[n + 1]

RECURSIVE Digits(_, _)
Digits(n, w) == IF w = 0 THEN <<>> ELSE Digits(n \div 10, w - 1) \o <<Digit(n % 10)>>

strftime(t) ==
    Digits(t.Y, 4) \o Digits(t.m, 2) \o Digits(t.d, 2) \o <<"_">>
        \o Digits(t.H, 2) \o Digits(t.M, 2) \o Digits(t.S, 2)

\* ------------------------------------------------------------------- state
VARIABLES
    files,       \* the uploaded files, in the uploader's order
    strictKeys,  \* whether the installed Streamlit refuses a user key used twice
    session,     \* widget id -> the value the user last gave the widget
    pressed,     \* the button whose press started this re-run, or NoWidget
    clicks,      \* interactions the user may still make
    pc,          \* "idle", or the section of the loop body about to run
    idx,         \* index of the file being processed (0 when idle)
    df,          \* the working DataFrame of the file being processed
    registered,  \* widget ids registered so far in this re-run
    out          \* what this re-run has rendered, one record per file so far

vars == <<files, strictKeys, session, pressed, clicks, pc, idx, df, registered, out>>

\* ----------------------------------------------------------------- widgets
\* A widget's identity.  With key= the user key identifies it; without, the
\* id is derived from the element type, the label and the options.
Keyed(type, key) == [type |-> type, user |-> TRUE, label |-> key, opts |-> <<>>]
Auto(type, label, opts) == [type |-> type, user |-> FALSE, label |-> label, opts |-> opts]
NoWidget == [type |-> "", user |-> FALSE, label |-> <<>>, opts |-> <<>>]

chart_key(name) == Keyed("selectbox", <<"chart_">> \o name)
x_key(name) == Keyed("selectbox", <<"x_">> \o name)
y_key(name) == Keyed("selectbox", <<"y_">> \o name)
dedup_checkbox(name) == Auto("checkbox", <<"Remove Duplicates - ">> \o name, <<>>)
fill_checkbox(name) == Auto("checkbox", <<"Fill Missing Values - ">> \o name, <<>>)
columns_multiselect(name, cols) ==
    Auto("multiselect", <<"Select columns to keep - ">> \o name, cols)
format_radio(name) == Keyed("radio", name)
download_button(name) == Keyed("button", <<"download_">> \o name)
download_link(label) == Auto("download_button", <<label>>, <<>>)

\* Streamlit raises when an element id is registered twice in one run, and
\* (strictKeys) when a user key is.
Duplicate(w, reg) ==
    \/ w \in reg
    \/ strictKeys /\ w.user /\ \E r \in reg : r.user /\ r.label = w.label

\* Variant: a checkbox the user has touched reads as ticked from then on.
StickyCheckbox(w, default) ==
    IF w \in DOMAIN session
    THEN (IF w.type = "checkbox" THEN TRUE ELSE session[w])
    ELSE default

\* The value a widget call returns: the user's value, else the default.
widget_value(w, default) == IF w \in DOMAIN session THEN session[w] ELSE default

\* ------------------------------------------------------------------ render
NoError == [name |-> <<>>, text |-> ""]
NoDownload == [label |-> "", file_name |-> <<>>, mime |-> "", data |-> Nil]

Rendered(file) ==
    [name     |-> file.name,
     parser   |-> ParserFor(file.name),
     widgets  |-> {},
     removed  |-> -1,
     filled   |-> FALSE,
     table    |-> Nil,
     download |-> NoDownload,
     done     |-> FALSE,
     error    |-> NoError]

\* End of the loop body for file idx: the next file, or the end of the run,
\* where Streamlit drops the state of widgets the run did not render and a
\* pressed button reads False again.
EndFile(o, reg) ==
    /\ out' = o
    /\ registered' = reg
    /\ df' = Nil
    /\ IF idx < Len(files)
       THEN /\ idx' = idx + 1
            /\ pc' = "load"
            /\ UNCHANGED <<session, pressed>>
       ELSE /\ idx' = 0
            /\ pc' = "idle"
            /\ session' = [w \in DOMAIN session \cap reg |-> session[w]]
            /\ pressed' = NoWidget

\* Variant: the try wraps the whole loop, so the first error ends the run.
ExceptAbortsRun(o, reg, text) ==
    /\ out' = [o EXCEPT ![idx].error = [name |-> files[idx].name, text |-> text]]
    /\ registered' = reg
    /\ df' = Nil
    /\ idx' = 0
    /\ pc' = "idle"
    /\ session' = [w \in DOMAIN session \cap reg |-> session[w]]
    /\ pressed' = NoWidget

\* except Exception as e: st.error(f"Error processing {file.name}: {str(e)}")
\* and the loop goes on with the next file.
except(o, reg, text) ==
    EndFile([o EXCEPT ![idx].error = [name |-> files[idx].name, text |-> text]], reg)

\* Registering the widgets ws in order: the ids registered, and whether one
\* of them raised.
RECURSIVE Register(_, _)
Register(ws, reg) ==
    IF ws = <<>> THEN [ok |-> TRUE, reg |-> reg]
    ELSE IF Duplicate(Head(ws), reg) THEN [ok |-> FALSE, reg |-> reg]
         ELSE Register(Tail(ws), reg \cup {Head(ws)})

Shown(o, r) == [o EXCEPT ![idx].widgets = @ \cup (r.reg \ registered)]

\* ------------------------------------------------------------------ the run
\* Lines 68-86: the header, the parse, the preview.
Load ==
    /\ pc = "load"
    /\ LET file == files[idx]
           o    == Append(out, Rendered(file))
       IN  IF CanParse(file)
           THEN /\ df' = DataFrame(file.grid)
                /\ out' = o
                /\ pc' = "viz"
                /\ UNCHANGED <<registered, idx, session, pressed>>
           ELSE except(o, registered, "parse")
    /\ UNCHANGED <<files, strictKeys, clicks>>

\* Lines 88-120: the data info and the chart controls.
Visualize ==
    /\ pc = "viz"
    /\ LET name == files[idx].name
           ws   == IF df.rows # <<>> /\ Len(numeric_cols(df)) >= 2
                   THEN <<chart_key(name), x_key(name), y_key(name)>>
                   ELSE <<>>
           r    == Register(ws, registered)
       IN  IF r.ok
           THEN /\ out' = Shown(out, r)
                /\ registered' = r.reg
                /\ pc' = "dedup"
                /\ UNCHANGED <<df, idx, session, pressed>>
           ELSE except(Shown(out, r), r.reg, "duplicate")
    /\ UNCHANGED <<files, strictKeys, clicks>>

\* Lines 127-132.
RemoveDuplicates ==
    /\ pc = "dedup"
    /\ LET w == dedup_checkbox(files[idx].name)
           r == Register(<<w>>, registered)
       IN  IF r.ok
           THEN /\ registered' = r.reg
                /\ IF widget_value(w, FALSE)
                   THEN LET original_rows == Len(df.rows)
                            d == drop_duplicates(df)
                        IN  /\ df' = d
                            /\ out' = [Shown(out, r) EXCEPT
                                         ![idx].removed = original_rows - Len(d.rows)]
                   ELSE /\ df' = df
                        /\ out' = Shown(out, r)
                /\ pc' = "fill"
                /\ UNCHANGED <<idx, session, pressed>>
           ELSE except(out, r.reg, "duplicate")
    /\ UNCHANGED <<files, strictKeys, clicks>>

\* Variant: the means are taken from the frame as parsed, before any
\* duplicate was removed.
fill_with_parsed_means(d, parsed) ==
    [d EXCEPT !.rows =
        [i \in 1..Len(d.rows) |->
            [c \in Range(d.cols) |->
                IF d.dtype[c] = "number" /\ IsNull(d.rows[i][c])
                THEN mean(parsed.rows, c)
                ELSE d.rows[i][c]]]]

\* The fill as the loop body calls it: on df, the frame the duplicate
\* removal left.
fill_missing(d, parsed) == fillna_mean(d)

\* Lines 135-138.
FillMissing ==
    /\ pc = "fill"
    /\ LET w == fill_checkbox(files[idx].name)
           r == Register(<<w>>, registered)
       IN  IF r.ok
           THEN /\ registered' = r.reg
                /\ IF widget_value(w, FALSE)
                   THEN /\ df' = fill_missing(df, DataFrame(files[idx].grid))
                        /\ out' = [Shown(out, r) EXCEPT ![idx].filled = TRUE]
                   ELSE /\ df' = df
                        /\ out' = Shown(out, r)
                /\ pc' = "select"
                /\ UNCHANGED <<idx, session, pressed>>
           ELSE except(out, r.reg, "duplicate")
    /\ UNCHANGED <<files, strictKeys, clicks>>

\* Lines 142-147.
SelectColumns ==
    /\ pc = "select"
    /\ LET w == columns_multiselect(files[idx].name, df.cols)
           r == Register(<<w>>, registered)
       IN  IF r.ok
           THEN /\ registered' = r.reg
                /\ df' = getitem(df, widget_value(w, df.cols))
                /\ out' = Shown(out, r)
                /\ pc' = "export"
                /\ UNCHANGED <<idx, session, pressed>>
           ELSE except(out, r.reg, "duplicate")
    /\ UNCHANGED <<files, strictKeys, clicks>>

\* The moments an export can happen at.
Clock ==
    {[Y |-> 2025, m |-> 3, d |-> 9, H |-> 7, M |-> 5, S |-> 0],
     [Y |-> 2025, m |-> 12, d |-> 31, H |-> 23, M |-> 59, S |-> 59]}

\* Lines 159-178: the artifact offered once the button was pressed.
Artifact(name, format_choice, now, data) ==
    IF format_choice = "CSV"
    THEN [label     |-> "Click to Download CSV",
          file_name |-> basename(name) \o <<"_">> \o strftime(now) \o <<".", "csv">>,
          mime      |-> "text/csv",
          data      |-> data]
    ELSE [label     |-> "Click to Download Excel",
          file_name |-> basename(name) \o <<"_">> \o strftime(now) \o <<".", "xlsx">>,
          mime      |-> "application/vnd.openxmlformats-officedocument.spreadsheetml.sheet",
          data      |-> data]

\* Lines 151-178.
ExportOptions ==
    /\ pc = "export"
    /\ LET name  == files[idx].name
           radio == format_radio(name)
           btn   == download_button(name)
           r     == Register(<<radio, btn>>, registered)
           o     == [Shown(out, r) EXCEPT ![idx].table = df]
       IN  IF r.ok
           THEN IF pressed = btn
                THEN \E now \in Clock :
                        LET art == Artifact(name, widget_value(radio, "CSV"), now, df)
                            r2  == Register(<<download_link(art.label)>>, r.reg)
                        IN  IF r2.ok
                            THEN EndFile([Shown(o, r2) EXCEPT
                                            ![idx].download = art,
                                            ![idx].done = TRUE], r2.reg)
                            ELSE except(o, r2.reg, "duplicate")
                ELSE EndFile([o EXCEPT ![idx].done = TRUE], r.reg)
           ELSE except(o, r.reg, "duplicate")
    /\ UNCHANGED <<files, strictKeys, clicks>>

Run == Load \/ Visualize \/ RemoveDuplicates \/ FillMissing \/ SelectColumns \/ ExportOptions

\* ------------------------------------------------------------ interactions
\* The widgets on the page after the last run.
OnPage == UNION {out[i].widgets : i \in 1..Len(out)}

\* Every interaction sends the new widget state and starts a re-run.
Rerun(s, b) ==
    /\ pc = "idle"
    /\ clicks > 0
    /\ clicks' = clicks - 1
    /\ session' = s
    /\ pressed' = b
    /\ pc' = "load"
    /\ idx' = 1
    /\ out' = <<>>
    /\ registered' = {}
    /\ df' = Nil
    /\ UNCHANGED <<files, strictKeys>>

Set(w, v) == (w :> v) @@ session

ToggleCheckbox ==
    \E w \in OnPage :
        /\ w.type = "checkbox"
        /\ Rerun(Set(w, ~widget_value(w, FALSE)), NoWidget)

\* Clicking an option of the multiselect removes it when it is picked and
\* appends it when it is not: the value lists the options in pick order.
ToggleColumn ==
    \E w \in OnPage :
        /\ w.type = "multiselect"
        /\ \E c \in Range(w.opts) :
              LET cur == widget_value(w, w.opts)
              IN  Rerun(Set(w, IF c \in Range(cur)
                               THEN KeepIn(cur, Range(cur) \ {c})
                               ELSE Append(cur, c)), NoWidget)

ChooseFormat ==
    \E w \in OnPage :
        /\ w.type = "radio"
        /\ Rerun(Set(w, IF widget_value(w, "CSV") = "CSV" THEN "Excel" ELSE "CSV"),
                 NoWidget)

PressDownload ==
    \E w \in OnPage :
        /\ w.type = "button"
        /\ Rerun(session, w)

Interact == ToggleCheckbox \/ ToggleColumn \/ ChooseFormat \/ PressDownload

Next == Interact \/ Run

\* ------------------------------------------------------------------ inputs
Csv == <<".", "csv">>
Xlsx == <<".", "xlsx">>

Row2(a, b) == [a |-> a, b |-> b]
RowS(a, s) == [a |-> a, s |-> s]

\* Two numeric columns, a duplicate row, a missing cell in each column.
GridAB ==
    [cols |-> <<"a", "b">>,
     rows |-> <<Row2(Num(1, 1), Num(1, 1)), Row2(Num(1, 1), Num(1, 1)),
                Row2(Num(2, 1), NaN), Row2(NaN, Num(1, 1))>>]

\* A numeric and a text column, a duplicate row, a row of blanks.
GridAS ==
    [cols |-> <<"a", "s">>,
     rows |-> <<RowS(Num(1, 1), Str("u")), RowS(NaN, NaN), RowS(Num(1, 1), Str("u"))>>]

File(name, fmt, grid) == [name |-> name, fmt |-> fmt, grid |-> grid]

\* Names the uploader accepts (type=["csv", "xlsx"]) with contents that do
\* or do not match the name.
FileSet ==
    {File(<<"a">> \o Csv, "csv", GridAB),
     File(<<"chart_", "a">> \o Csv, "csv", GridAS),
     File(<<"a", ".", "b">> \o Csv, "csv", GridAS),
     File(<<"a">> \o Xlsx, "excel", GridAB),
     File(<<"b">> \o Xlsx, "csv", GridAS)}

SeqsUpTo(S, n) == UNION {[1..k -> S] : k \in 1..n}

FirstRun ==
    /\ pressed = NoWidget
    /\ pc = "load"
    /\ idx = 1
    /\ df = Nil
    /\ registered = {}
    /\ out = <<>>

\* The files have just been uploaded together; the first run is about to start.
Init ==
    /\ files \in SeqsUpTo(FileSet, MaxFiles)
    /\ strictKeys \in BOOLEAN
    /\ session = <<>>
    /\ clicks = MaxClicks
    /\ FirstRun

Spec == Init /\ [][Next]_vars

\* One file, and a longer sequence of interactions with it.
InitSession ==
    /\ files \in SeqsUpTo(FileSet, 1)
    /\ strictKeys \in BOOLEAN
    /\ session = <<>>
    /\ clicks = MaxSessionClicks
    /\ FirstRun

SpecSession == InitSession /\ [][Next]_vars

\* One CSV file whose grid has the columns a (numbers and blanks) and s (text
\* and blanks), every control already set by the user, and the download
\* button just pressed: the inputs of one pass through the loop body.
CellsA == {NaN, Num(1, 1), Num(2, 1)}
CellsS == {NaN, Str("u")}

Grids ==
    {[cols |-> <<"a", "s">>, rows |-> r] :
        r \in UNION {[1..n -> {RowS(x, y) : x \in CellsA, y \in CellsS}] : n \in 0..MaxRows}}

\* The values a multiselect over cols can hold: picked options, in pick order.
Picks(cols) ==
    {p \in UNION {[1..n -> Range(cols)] : n \in 0..Len(cols)} :
        \A i, j \in DOMAIN p : i # j => p[i] # p[j]}

Controls(name, cols, d, f, sel) ==
    (dedup_checkbox(name) :> d) @@ (fill_checkbox(name) :> f)
        @@ (columns_multiselect(name, cols) :> sel)

InitClean ==
    /\ \E g \in Grids : files = <<File(<<"a">> \o Csv, "csv", g)>>
    /\ strictKeys = TRUE
    /\ \E d \in BOOLEAN, f \in BOOLEAN, sel \in Picks(<<"a", "s">>) :
          session = Controls(<<"a">> \o Csv, <<"a", "s">>, d, f, sel)
    /\ clicks = 0
    /\ pc = "load"
    /\ idx = 1
    /\ df = Nil
    /\ registered = {}
    /\ out = <<>>
    /\ pressed = download_button(<<"a">> \o Csv)

SpecClean == InitClean /\ [][Run]_vars

\* ------------------------------------------------- the claims' vocabulary
\* Stated without the operators of the model above, so that each claim is
\* something the model can fail.

\* The value the user currently has in a control.
Chosen(w, default) == IF w \in DOMAIN session THEN session[w] ELSE default

\* Rows with no earlier row equal in every column.
FirstOccurrences(rows) ==
    {i \in 1..Len(rows) :
        \A j \in 1..(i - 1) : \E c \in DOMAIN rows[i] : rows[j][c] # rows[i][c]}

\* The rows at the indices K, in their original order.
RowsAt(rows, K) ==
    [n \in 1..Cardinality(K) |->
        rows[CHOOSE i \in K : Cardinality({j \in K : j < i}) = n - 1]]

Present(rows, c) == {i \in 1..Len(rows) : rows[i][c].k = "num"}
Missing(rows, c) == {i \in 1..Len(rows) : rows[i][c].k = "nan"}

\* The arithmetic mean of the present cells of column c as a fraction n/d
\* (not reduced); fractions are compared by cross-multiplication.
RECURSIVE FractionSum(_, _, _)
FractionSum(rows, c, I) ==
    IF I = {} THEN [n |-> 0, d |-> 1]
    ELSE LET i == CHOOSE x \in I : TRUE
             r == FractionSum(rows, c, I \ {i})
             x == rows[i][c]
         IN  [n |-> r.n * x.d + x.n * r.d, d |-> r.d * x.d]

MeanFraction(rows, c) ==
    LET t == FractionSum(rows, c, Present(rows, c))
    IN  [n |-> t.n, d |-> t.d * Cardinality(Present(rows, c))]

SameFraction(p, q) == p.n * q.d = q.n * p.d

\* The three transforms as the specification words them.
ExpectDedup(t) == [t EXCEPT !.rows = RowsAt(t.rows, FirstOccurrences(t.rows))]

ExpectFill(t) ==
    [t EXCEPT !.rows =
        [i \in 1..Len(t.rows) |->
            [c \in Range(t.cols) |->
                IF t.dtype[c] = "number" /\ i \in Missing(t.rows, c)
                   /\ Present(t.rows, c) # {}
                THEN LET m == MeanFraction(t.rows, c) IN Num(m.n, m.d)
                ELSE t.rows[i][c]]]]

ExpectSelect(t, sel) ==
    [cols  |-> sel,
     dtype |-> [c \in Range(sel) |-> t.dtype[c]],
     rows  |-> [i \in 1..Len(t.rows) |-> [c \in Range(sel) |-> t.rows[i][c]]],
     nil   |-> FALSE]

\* The file parsed afresh and taken through the transforms whose controls
\* are enabled now: duplicate removal, then mean-fill, then selection.
Parsed(file) == DataFrame(file.grid)

ExpectCleaned(file) ==
    LET t0 == Parsed(file)
        t1 == IF Chosen(dedup_checkbox(file.name), FALSE) THEN ExpectDedup(t0) ELSE t0
    IN  IF Chosen(fill_checkbox(file.name), FALSE) THEN ExpectFill(t1) ELSE t1

Expected(file) ==
    ExpectSelect(ExpectCleaned(file),
                 Chosen(columns_multiselect(file.name, file.grid.cols), file.grid.cols))

\* The steps of the loop body, as transitions.
DedupApplied ==
    pc = "dedup" /\ pc' = "fill" /\ Chosen(dedup_checkbox(files[idx].name), FALSE)
FillApplied ==
    pc = "fill" /\ pc' = "select" /\ Chosen(fill_checkbox(files[idx].name), FALSE)
SelectApplied == pc = "select" /\ pc' = "export"

SameFrame(s, t) ==
    /\ s.cols = t.cols
    /\ Len(s.rows) = Len(t.rows)
    /\ \A c \in Range(s.cols) : s.dtype[c] = t.dtype[c]
    /\ \A i \in 1..Len(s.rows) : \A c \in Range(s.cols) : s.rows[i][c] = t.rows[i][c]

\* ------------------------------------------------------------------ claims

\* The ids a file registers when its whole pipeline runs.
WidgetsOf(file) ==
    LET t == Parsed(file)
    IN  {dedup_checkbox(file.name), fill_checkbox(file.name),
         columns_multiselect(file.name, t.cols),
         format_radio(file.name), download_button(file.name)}
        \cup (IF t.rows # <<>>
                 /\ Cardinality({c \in Range(t.cols) : t.dtype[c] = "number"}) >= 2
              THEN {chart_key(file.name), x_key(file.name), y_key(file.name)}
              ELSE {})

Clash(f, g) ==
    \E w \in WidgetsOf(f), v \in WidgetsOf(g) :
        w = v \/ (strictKeys /\ w.user /\ v.user /\ w.label = v.label)

C1_RunEnd ==
    pc = "idle" =>
        /\ Len(out) = Len(files)
        /\ \A i \in 1..Len(files) :
              /\ out[i].name = files[i].name
              /\ out[i].error = NoError => out[i].done
              /\ out[i].error # NoError =>
                    /\ out[i].error.name = files[i].name
                    /\ out[i].error.text \in {"parse", "duplicate"}
              /\ out[i].error.text = "parse" <=> ~CanParse(files[i])
              /\ (CanParse(files[i])
                    /\ \A j \in 1..Len(files) : j # i => ~Clash(files[i], files[j]))
                 => out[i].done /\ out[i].error = NoError

C1_EarlierKept ==
    pc # "idle" =>
        \A j \in 1..Len(out) : j < idx => Len(out') >= j /\ out'[j] = out[j]

\* C1: a file whose processing raises is reported with its name and the
\* error text; every file of the list, before or after it, is still taken
\* through its own pipeline (to its end unless it raises itself), and what
\* the run rendered for earlier files stays.
C1_ErrorIsolation == [](C1_RunEnd) /\ [][C1_EarlierKept]_vars

\* A run in which the first file failed to parse and the second was
\* processed to its end.
C1_Witness ==
    /\ pc = "idle"
    /\ Len(out) = 2
    /\ out[1].error.text = "parse"
    /\ out[2].done
    /\ out[2].error = NoError

\* C2 as the specification has it: the result holds exactly the chosen
\* columns in the relative order they had in the Table, whatever order they
\* were picked in; choosing all columns leaves the Table unchanged.
C2_OriginalOrder ==
    [][SelectApplied =>
        LET chosen == Chosen(columns_multiselect(files[idx].name, df.cols), df.cols)
        IN  /\ Range(df'.cols) = Range(chosen)
            /\ \A p, q \in 1..Len(df'.cols) :
                  p < q =>
                    \E a, b \in 1..Len(df.cols) :
                        a < b /\ df.cols[a] = df'.cols[p] /\ df.cols[b] = df'.cols[q]
            /\ Range(chosen) = Range(df.cols) => SameFrame(df', df)]_vars

\* C2 amended: the result holds exactly the chosen columns, in the order the
\* selection lists them (pick order; the Table's order for the default
\* selection); no column is added or renamed, every kept column keeps its
\* cells, and the default selection of all columns leaves the Table unchanged.
C2_ColumnSelection ==
    [][SelectApplied =>
        LET chosen == Chosen(columns_multiselect(files[idx].name, df.cols), df.cols)
        IN  /\ df'.cols = chosen
            /\ Range(df'.cols) \subseteq Range(df.cols)
            /\ Len(df'.rows) = Len(df.rows)
            /\ \A i \in 1..Len(df.rows) :
                  /\ DOMAIN df'.rows[i] = Range(chosen)
                  /\ \A c \in Range(chosen) : df'.rows[i][c] = df.rows[i][c]
            /\ \A c \in Range(chosen) : df'.dtype[c] = df.dtype[c]
            /\ chosen = df.cols => SameFrame(df', df)]_vars

\* The selection was made with both columns picked in the reverse order.
C2_Witness == pc = "export" /\ df.cols = <<"s", "a">> /\ Len(df.rows) >= 1

NumericWithMissing(t) ==
    {c \in Range(t.cols) : t.dtype[c] = "number" /\ Missing(t.rows, c) # {}}

\* After the fill column c has no missing cell, every filled cell holds the
\* mean of the cells present before, and the column's mean is as before.
FilledWithMean(before, after, c) ==
    /\ Missing(after.rows, c) = {}
    /\ \A i \in Missing(before.rows, c) :
          /\ after.rows[i][c].k = "num"
          /\ SameFraction(after.rows[i][c], MeanFraction(before.rows, c))
    /\ SameFraction(MeanFraction(after.rows, c), MeanFraction(before.rows, c))

\* C3 as the specification has it: every numeric column with k >= 1 missing
\* values, a column whose values are all missing included, has none after
\* mean-fill; the filled cells hold the mean of the values present before
\* and the column's mean is unchanged.
C3_OriginalAllColumns ==
    [][FillApplied =>
        \A c \in NumericWithMissing(df) : FilledWithMean(df, df', c)]_vars

\* C3 amended: the same for every numeric column with k >= 1 missing values
\* and at least one present value; a numeric column whose values are all
\* missing has no mean and stays all missing.
C3_MeanFill ==
    [][FillApplied =>
        \A c \in NumericWithMissing(df) :
            IF Present(df.rows, c) # {}
            THEN FilledWithMean(df, df', c)
            ELSE Missing(df'.rows, c) = 1..Len(df.rows)]_vars

\* Mean-fill ran and put 3/2, the mean of 1 and 2, into a missing cell of a.
C3_Witness ==
    /\ pc = "select"
    /\ out[idx].filled
    /\ \E i, j, l \in 1..Len(df.rows) :
          /\ df.rows[i]["a"] = Num(3, 2)
          /\ df.rows[j]["a"] = Num(1, 1)
          /\ df.rows[l]["a"] = Num(2, 1)

\* C4: duplicate removal deletes exactly the rows equal in every column to
\* an earlier row, keeps the first occurrences in their original order, and
\* reports the number of rows deleted.
C4_DuplicateRemoval ==
    [][DedupApplied =>
        LET K == FirstOccurrences(df.rows)
        IN  /\ df'.rows = RowsAt(df.rows, K)
            /\ df'.cols = df.cols
            /\ out'[idx].removed = Len(df.rows) - Len(df'.rows)
            /\ out'[idx].removed = Cardinality((1..Len(df.rows)) \ K)]_vars

\* Duplicate removal deleted a row and left two different rows.
C4_Witness ==
    /\ pc = "fill"
    /\ out[idx].removed = 1
    /\ Len(df.rows) = 2
    /\ Len(files[idx].grid.rows) = 3
    /\ files[idx].grid.rows[1] = files[idx].grid.rows[3]

\* The name with its extension (the last dot and what follows it) removed.
StripExtension(name) ==
    LET dots == {i \in 1..Len(name) : name[i] = "."}
    IN  IF dots = {} THEN name
        ELSE SubSeq(name, 1, (CHOOSE i \in dots : \A j \in dots : j <= i) - 1)

\* The text after the last dot of the name.
AfterLastDot(name) ==
    LET dots == {i \in 1..Len(name) : name[i] = "."}
    IN  IF dots = {} THEN name
        ELSE SubSeq(name, (CHOOSE i \in dots : \A j \in dots : j <= i) + 1, Len(name))

\* C5: the artifact offered for download is named {basename}_{timestamp}.{ext}
\* with basename the uploaded name without its extension, the timestamp the
\* export moment as YYYYMMDD_HHMMSS, and csv with text/csv for CSV, xlsx with
\* the spreadsheet MIME type for Excel.
C5_DownloadName ==
    \A i \in 1..Len(out) :
        out[i].download # NoDownload =>
            LET fmt == Chosen(format_radio(files[i].name), "CSV")
                e   == IF fmt = "CSV" THEN "csv" ELSE "xlsx"
            IN  /\ \E now \in Clock :
                      out[i].download.file_name =
                          StripExtension(files[i].name) \o <<"_">> \o strftime(now)
                              \o <<".", e>>
                /\ Len(out[i].download.file_name) = Len(StripExtension(files[i].name)) + 18
                /\ out[i].download.mime =
                      IF fmt = "CSV" THEN "text/csv"
                      ELSE "application/vnd.openxmlformats-officedocument.spreadsheetml.sheet"

\* C6: the enabled transforms run in the order duplicate removal, mean-fill,
\* column selection, each on the Table the previous one left: after the
\* fill step the Table is the parsed one with duplicates removed and then
\* filled (the mean taken over the remaining rows), and the Table exported
\* is that one restricted to the selection.
C6_TransformOrder ==
    /\ pc = "select" => SameFrame(df, ExpectCleaned(files[idx]))
    /\ pc = "export" => SameFrame(df, Expected(files[idx]))
    /\ \A i \in 1..Len(out) :
          out[i].done =>
              /\ SameFrame(out[i].table, Expected(files[i]))
              /\ out[i].download # NoDownload =>
                    SameFrame(out[i].download.data, Expected(files[i]))

\* Both cleaning options on, and an export whose filled cell holds 3/2, the
\* mean of a over the rows left by duplicate removal (4/3 over all rows).
C6_Witness ==
    /\ Len(out) = 1
    /\ out[1].done
    /\ out[1].removed = 1
    /\ out[1].filled
    /\ out[1].download # NoDownload
    /\ out[1].download.data.cols = <<"a", "b">>
    /\ \E i \in 1..Len(out[1].download.data.rows) :
          out[1].download.data.rows[i]["a"] = Num(3, 2)
    /\ MeanFraction(files[1].grid.rows, "a") = [n |-> 4, d |-> 3]

\* C7: each file's result is what it would be had it been uploaded alone
\* with the same control values: a file that parses is processed to the end
\* and its Table is the one its own controls give.
C7_FilesIndependent ==
    pc = "idle" =>
        \A i \in 1..Len(files) :
            CanParse(files[i]) =>
                /\ i <= Len(out)
                /\ out[i].error = NoError
                /\ out[i].done
                /\ SameFrame(out[i].table, Expected(files[i]))

\* C8: the CSV parser is used exactly when the text after the last dot of
\* the name is "csv", the spreadsheet parser for every other name, and the
\* outcome is a Table or a failure reported for the file.
C8_ParserChoice ==
    /\ \A i \in 1..Len(out) :
          /\ out[i].parser = "csv" <=> AfterLastDot(files[i].name) = <<"csv">>
          /\ out[i].parser = "excel" <=> AfterLastDot(files[i].name) # <<"csv">>
          /\ (i < idx \/ pc = "idle") =>
                (out[i].error.text = "parse" <=> out[i].parser # files[i].fmt)
    /\ pc \notin {"idle", "load"} =>
          /\ ~df.nil
          /\ out[idx].parser = files[idx].fmt
          /\ out[idx].error = NoError

\* A name with two dots went to the CSV parser and gave a Table; a name
\* ending in xlsx went to the spreadsheet parser and failed.
C8_Witness ==
    /\ pc = "idle"
    /\ Len(out) = 2
    /\ files[1].name = <<"a", ".", "b", ".", "csv">>
    /\ out[1].parser = "csv"
    /\ out[1].done
    /\ out[2].parser = "excel"
    /\ out[2].error.text = "parse"

\* C9: mean-fill changes only missing cells of numeric columns; the other
\* cells, the columns, their names and order, and the rows stay.
C9_FillFrame ==
    [][FillApplied =>
        /\ df'.cols = df.cols
        /\ df'.dtype = df.dtype
        /\ Len(df'.rows) = Len(df.rows)
        /\ \A i \in 1..Len(df.rows) :
              /\ DOMAIN df'.rows[i] = DOMAIN df.rows[i]
              /\ \A c \in Range(df.cols) :
                    (df.dtype[c] # "number" \/ df.rows[i][c].k # "nan")
                        => df'.rows[i][c] = df.rows[i][c]]_vars

\* Mean-fill filled a cell of a and left a missing cell of the text column s.
C9_Witness ==
    /\ pc = "select"
    /\ out[idx].filled
    /\ df.dtype["s"] = "object"
    /\ \E i, j \in 1..Len(df.rows) :
          /\ df.rows[i]["s"].k = "nan"
          /\ df.rows[j]["a"] = Num(3, 2)

\* C10: whatever the user did before, the Table offered for export is the
\* file parsed afresh and taken through exactly the transforms enabled now.
C10_FreshEachRun ==
    \A i \in 1..Len(out) :
        out[i].download # NoDownload =>
            SameFrame(out[i].download.data, Expected(files[i]))

\* Duplicate removal was switched on and off again before the export: the
\* exported Table has the duplicate row back.
C10_Witness ==
    /\ pc = "idle"
    /\ Len(out) = 1
    /\ out[1].download # NoDownload
    /\ dedup_checkbox(files[1].name) \in DOMAIN session
    /\ ~session[dedup_checkbox(files[1].name)]
    /\ Len(out[1].download.data.rows) = Len(files[1].grid.rows)
    /\ FirstOccurrences(files[1].grid.rows) # 1..Len(files[1].grid.rows)

====
